---------------------------- MODULE Spec2Model ----------------------------
(***************************************************************************)
(* The camera session of camera_stream.py (class IMX219Camera) over an     *)
(* abstract capture backend (cv2.VideoCapture), and the caller loops of    *)
(* camera_stream.main, vision_stream.main / VisionStream.run /             *)
(* MockVisionStream.run and test_vision_simple.py.                         *)
(*                                                                         *)
(* Spec       : an arbitrary client calling open/read/get_fps/close.       *)
(* SpecCallers: the repository's own caller loops driving the session.     *)
(***************************************************************************)
EXTENDS Integers, Sequences, FiniteSets

\* ------------------------------------------------------------------ bounds
\* Backend capture objects that may be constructed in one run.
MaxHandles == 3
\* Largest value frame_count may reach (successful reads are disabled beyond).
MaxFrames == 3
\* Largest value of the wall clock.
MaxTime == 2

\* --------------------------------------------------------------- encodings
\* self.cap = None
NoHandle == 0
\* self.start_time = None
NoTime == -1

VARIABLES
    use_gstreamer,  \* IMX219Camera.use_gstreamer (fixed at construction)
    cap,            \* IMX219Camera.cap: NoHandle or the index of a backend handle
    frame_count,    \* IMX219Camera.frame_count
    start_time,     \* IMX219Camera.start_time: NoTime or a clock value
    handles,        \* the backend: every cv2.VideoCapture constructed so far,
                    \*   <<[opened, releases]>>, indexed by handle
    now,            \* time.time()
    result,         \* what the last session call did and returned
    is_open,        \* history: the last open() returned True and no close() since
    reads_since_open, \* history: read() calls that returned True since the last
                    \*   open() that returned True
    prog,           \* which entry point runs ("client" under Spec)
    pc,             \* the entry point's position
    exit_code,      \* the entry point's exit status (-1 while running)
    env,            \* the entry point's environment: NANOLLM_AVAILABLE, --mock,
                    \*   --duration given, model load outcome
    i,              \* test_vision_simple's loop index
    exc,            \* the exception propagating through the entry point, if any
    hist            \* history of the caller: a call failed, a call was repeated

session == <<use_gstreamer, cap, frame_count, start_time, handles, now, result, is_open,
            reads_since_open>>
caller == <<prog, pc, exit_code, env, i, exc, hist>>
vars == <<use_gstreamer, cap, frame_count, start_time, handles, now, result, is_open,
          reads_since_open,
          prog, pc, exit_code, env, i, exc, hist>>

\* ------------------------------------------------------------- the backend
\* get_fps's value as a fraction <<frames, seconds>>; 0.0 is <<0, 1>>.
ZeroFps == <<0, 1>>

\* result: op/ok/frame/fps are the call and its return value; path is the backend
\* behaviour open() met; created/released are the handles the call constructed and
\* released; pulls counts the backend reads it issued; raised: an exception reached
\* the call's except clause or its caller; escaped: the exception left the call
\* and reached its caller; seq flips on every call.
NoResult ==
    [op |-> "init", ok |-> FALSE, frame |-> FALSE, fps |-> ZeroFps, path |-> "none",
     created |-> NoHandle, released |-> NoHandle, pulls |-> 0, raised |-> FALSE,
     escaped |-> FALSE, seq |-> 0]

\* The record of a call of `op`, before its details are filled in.
Res(op) == [NoResult EXCEPT !.op = op, !.seq = 1 - result.seq]

\* A live capture object: constructed opened and not yet released.
Live(h) == handles[h].opened /\ handles[h].releases = 0

\* What cv2.VideoCapture.read can do on handle h: a frame, (False, None), or an
\* error; an unopened or released capture only ever yields (False, None).
BackendRead(h) == IF Live(h) THEN {"frame", "fail", "raise"} ELSE {"fail"}

\* cv2.VideoCapture.release on handle h.
BackendRelease(h) == [handles EXCEPT ![h].releases = @ + 1]

\* What the backend can do during open(): the constructor raises; a capability
\* request raises (V4L2 branch only); the capture is constructed but not opened;
\* the trial read raises; the trial read yields no frame; all succeeds.
OpenPaths ==
    {"ctor_raise", "not_opened", "read_raise", "trial_fail", "ok"}
        \cup (IF use_gstreamer THEN {} ELSE {"set_raise"})

\* Whether the capture object constructed on a path reports isOpened().
PathOpened(path, o) ==
    CASE path = "not_opened" -> ~o
      [] path \in {"read_raise", "trial_fail", "ok"} -> o
      [] path = "ctor_raise" -> ~o
      [] OTHER -> TRUE

\* ------------------------------------------------------------- the session
\* close() as it would be without `self.cap = None`.
close_keeps_handle ==
    /\ IF cap # NoHandle
       THEN /\ handles' = BackendRelease(cap)
            /\ result' = [Res("close") EXCEPT !.ok = TRUE, !.released = cap]
       ELSE /\ UNCHANGED handles
            /\ result' = [Res("close") EXCEPT !.ok = TRUE]
    /\ is_open' = FALSE
    /\ UNCHANGED <<use_gstreamer, cap, frame_count, start_time, now, reads_since_open>>

\* close() as it would be without the `if self.cap is not None` guard: releasing
\* an absent handle raises.
close_unguarded ==
    /\ IF cap # NoHandle
       THEN /\ handles' = BackendRelease(cap)
            /\ cap' = NoHandle
            /\ result' = [Res("close") EXCEPT !.ok = TRUE, !.released = cap]
       ELSE /\ UNCHANGED <<handles, cap>>
            /\ result' = [Res("close") EXCEPT !.raised = TRUE]
    /\ is_open' = FALSE
    /\ UNCHANGED <<use_gstreamer, frame_count, start_time, now, reads_since_open>>

\* close() as it would be if it also cleared the frame counter.
close_resets_count ==
    /\ IF cap # NoHandle
       THEN /\ handles' = BackendRelease(cap)
            /\ cap' = NoHandle
            /\ result' = [Res("close") EXCEPT !.ok = TRUE, !.released = cap]
       ELSE /\ UNCHANGED <<handles, cap>>
            /\ result' = [Res("close") EXCEPT !.ok = TRUE]
    /\ is_open' = FALSE
    /\ frame_count' = 0
    /\ UNCHANGED <<use_gstreamer, start_time, now, reads_since_open>>

\* IMX219Camera.close
close ==
    /\ IF cap # NoHandle
       THEN /\ handles' = BackendRelease(cap)
            /\ cap' = NoHandle
            /\ result' = [Res("close") EXCEPT !.ok = TRUE, !.released = cap]
       ELSE /\ UNCHANGED <<handles, cap>>
            /\ result' = [Res("close") EXCEPT !.ok = TRUE]
    /\ is_open' = FALSE
    /\ UNCHANGED <<use_gstreamer, frame_count, start_time, now, reads_since_open>>

\* open() assigns self.cap without releasing the capture it held. The assignment
\* drops the only reference to that capture object; whether the interpreter
\* finalizes it (its destructor releases the device) is not decided by the code,
\* so both outcomes are possible. Nothing is dropped when the session holds no
\* handle or the constructor raises before the assignment.
Finalized(path) ==
    IF cap # NoHandle /\ path # "ctor_raise" THEN BOOLEAN ELSE {FALSE}

\* open() as it would be without its `except Exception` clause: what the backend
\* raises leaves open() instead of becoming a False return.
open_reraises(path, o) ==
    /\ path \in OpenPaths
    /\ PathOpened(path, o)
    /\ \E fin \in Finalized(path) :
       LET h == Len(handles) + 1
           \* self.cap = cv2.VideoCapture(...): the new capture is constructed,
           \* then the assignment drops the reference to the previous one
           kept == IF fin THEN BackendRelease(cap) ELSE handles
           made == Append(kept, [opened |-> o, releases |-> 0])
           res == [Res("open") EXCEPT !.path = path]
       IN
       CASE path = "ctor_raise" ->
              \* cv2.VideoCapture(...) raised: self.cap is not assigned
              /\ UNCHANGED <<handles, cap, start_time>>
              /\ result' = [res EXCEPT !.raised = TRUE, !.escaped = TRUE]
              /\ is_open' = FALSE
         [] path = "set_raise" ->
              \* self.cap assigned, then self.cap.set(...) raised
              /\ Len(handles) < MaxHandles
              /\ handles' = made
              /\ cap' = h
              /\ UNCHANGED start_time
              /\ result' = [res EXCEPT !.raised = TRUE, !.escaped = TRUE, !.created = h]
              /\ is_open' = FALSE
         [] path = "not_opened" ->
              \* not self.cap.isOpened(): return False
              /\ Len(handles) < MaxHandles
              /\ handles' = made
              /\ cap' = h
              /\ UNCHANGED start_time
              /\ result' = [res EXCEPT !.created = h]
              /\ is_open' = FALSE
         [] path = "read_raise" ->
              \* self.cap.read() raised during the test frame capture
              /\ Len(handles) < MaxHandles
              /\ handles' = made
              /\ cap' = h
              /\ UNCHANGED start_time
              /\ result' = [res EXCEPT !.raised = TRUE, !.escaped = TRUE, !.created = h, !.pulls = 1]
              /\ is_open' = FALSE
         [] path = "trial_fail" ->
              \* not ret: self.close(); return False
              \* (close() finds the handle just assigned: one release, cap = None)
              /\ Len(handles) < MaxHandles
              /\ handles' = [made EXCEPT ![h].releases = @ + 1]
              /\ cap' = NoHandle
              /\ UNCHANGED start_time
              /\ result' = [res EXCEPT !.created = h, !.released = h, !.pulls = 1]
              /\ is_open' = FALSE
         [] OTHER ->
              \* self.start_time = time.time(); return True
              /\ Len(handles) < MaxHandles
              /\ handles' = made
              /\ cap' = h
              /\ start_time' = now
              /\ result' = [res EXCEPT !.ok = TRUE, !.created = h, !.pulls = 1]
              /\ is_open' = TRUE
    /\ reads_since_open' = IF path = "ok" THEN 0 ELSE reads_since_open
    /\ UNCHANGED <<use_gstreamer, frame_count, now>>

\* IMX219Camera.open, the backend behaving as `path` and the new capture
\* reporting isOpened() = o.
open(path, o) ==
    /\ path \in OpenPaths
    /\ PathOpened(path, o)
    /\ \E fin \in Finalized(path) :
       LET h == Len(handles) + 1
           \* self.cap = cv2.VideoCapture(...): the new capture is constructed,
           \* then the assignment drops the reference to the previous one
           kept == IF fin THEN BackendRelease(cap) ELSE handles
           made == Append(kept, [opened |-> o, releases |-> 0])
           res == [Res("open") EXCEPT !.path = path]
       IN
       CASE path = "ctor_raise" ->
              \* cv2.VideoCapture(...) raised: self.cap is not assigned
              /\ UNCHANGED <<handles, cap, start_time>>
              /\ result' = [res EXCEPT !.raised = TRUE]
              /\ is_open' = FALSE
         [] path = "set_raise" ->
              \* self.cap assigned, then self.cap.set(...) raised
              /\ Len(handles) < MaxHandles
              /\ handles' = made
              /\ cap' = h
              /\ UNCHANGED start_time
              /\ result' = [res EXCEPT !.raised = TRUE, !.created = h]
              /\ is_open' = FALSE
         [] path = "not_opened" ->
              \* not self.cap.isOpened(): return False
              /\ Len(handles) < MaxHandles
              /\ handles' = made
              /\ cap' = h
              /\ UNCHANGED start_time
              /\ result' = [res EXCEPT !.created = h]
              /\ is_open' = FALSE
         [] path = "read_raise" ->
              \* self.cap.read() raised during the test frame capture
              /\ Len(handles) < MaxHandles
              /\ handles' = made
              /\ cap' = h
              /\ UNCHANGED start_time
              /\ result' = [res EXCEPT !.raised = TRUE, !.created = h, !.pulls = 1]
              /\ is_open' = FALSE
         [] path = "trial_fail" ->
              \* not ret: self.close(); return False
              \* (close() finds the handle just assigned: one release, cap = None)
              /\ Len(handles) < MaxHandles
              /\ handles' = [made EXCEPT ![h].releases = @ + 1]
              /\ cap' = NoHandle
              /\ UNCHANGED start_time
              /\ result' = [res EXCEPT !.created = h, !.released = h, !.pulls = 1]
              /\ is_open' = FALSE
         [] OTHER ->
              \* self.start_time = time.time(); return True
              /\ Len(handles) < MaxHandles
              /\ handles' = made
              /\ cap' = h
              /\ start_time' = now
              /\ result' = [res EXCEPT !.ok = TRUE, !.created = h, !.pulls = 1]
              /\ is_open' = TRUE
    /\ reads_since_open' = IF path = "ok" THEN 0 ELSE reads_since_open
    /\ UNCHANGED <<use_gstreamer, frame_count, now>>

\* read() as it would be if it counted every pull, not only the successful ones.
read_counts_failures(outcome) ==
    /\ IF cap = NoHandle
       THEN /\ outcome = "fail"
            /\ result' = Res("read")
            /\ UNCHANGED frame_count
       ELSE /\ outcome \in BackendRead(cap)
            /\ frame_count < MaxFrames
            /\ frame_count' = frame_count + 1
            /\ result' = [Res("read") EXCEPT !.ok = (outcome = "frame"),
                                             !.frame = (outcome = "frame"),
                                             !.pulls = 1,
                                             !.raised = (outcome = "raise")]
    /\ reads_since_open' = IF result'.ok THEN reads_since_open + 1 ELSE reads_since_open
    /\ UNCHANGED <<use_gstreamer, cap, start_time, handles, now, is_open>>

\* IMX219Camera.read, the backend's read behaving as `outcome`.
read(outcome) ==
    /\ IF cap = NoHandle
       THEN /\ outcome = "fail"
            /\ result' = Res("read")
            /\ UNCHANGED frame_count
       ELSE /\ outcome \in BackendRead(cap)
            /\ CASE outcome = "frame" ->
                      /\ frame_count < MaxFrames
                      /\ frame_count' = frame_count + 1
                      /\ result' = [Res("read") EXCEPT !.ok = TRUE,
                                                    !.frame = TRUE, !.pulls = 1]
                 [] outcome = "fail" ->
                      /\ UNCHANGED frame_count
                      /\ result' = [Res("read") EXCEPT !.pulls = 1]
                 [] OTHER ->
                      /\ UNCHANGED frame_count
                      /\ result' = [Res("read") EXCEPT !.pulls = 1,
                                                    !.raised = TRUE,
                                                    !.escaped = TRUE]
    /\ reads_since_open' = IF result'.ok THEN reads_since_open + 1 ELSE reads_since_open
    /\ UNCHANGED <<use_gstreamer, cap, start_time, handles, now, is_open>>

\* The value IMX219Camera.get_fps returns in the current state.
fps ==
    IF start_time = NoTime \/ frame_count = 0
    THEN ZeroFps
    ELSE IF now - start_time > 0 THEN <<frame_count, now - start_time>> ELSE ZeroFps

\* IMX219Camera.get_fps
get_fps ==
    /\ result' = [Res("get_fps") EXCEPT !.ok = TRUE, !.fps = fps]
    /\ UNCHANGED <<use_gstreamer, cap, frame_count, start_time, handles, now, is_open,
                   reads_since_open>>

\* time.time() advances between calls.
Tick ==
    /\ now < MaxTime
    /\ now' = now + 1
    /\ UNCHANGED <<use_gstreamer, cap, frame_count, start_time, handles, result, is_open,
                   reads_since_open>>
    /\ UNCHANGED caller

\* IMX219Camera.__init__
InitSession ==
    /\ use_gstreamer \in BOOLEAN
    /\ cap = NoHandle
    /\ frame_count = 0
    /\ start_time = NoTime
    /\ handles = <<>>
    /\ now = 0
    /\ result = NoResult
    /\ is_open = FALSE
    /\ reads_since_open = 0

NoEnv == [nanollm |-> FALSE, mock |-> FALSE, duration |-> FALSE, model_ok |-> FALSE]
NoHist == [openFailed |-> FALSE, readFailed |-> FALSE,
           reopened |-> FALSE, reread |-> FALSE]

\* ---------------------------------------------------- an arbitrary client
Init ==
    /\ InitSession
    /\ prog = "client"
    /\ pc = "client"
    /\ exit_code = -1
    /\ env = NoEnv
    /\ i = 0
    /\ exc = "none"
    /\ hist = NoHist

ClientOpen == (\E path \in OpenPaths, o \in BOOLEAN : open(path, o)) /\ UNCHANGED caller
ClientRead == (\E outcome \in {"frame", "fail", "raise"} : read(outcome)) /\ UNCHANGED caller
ClientGetFps == get_fps /\ UNCHANGED caller
ClientClose == close /\ UNCHANGED caller

Next == ClientOpen \/ ClientRead \/ ClientGetFps \/ ClientClose \/ Tick

Spec == Init /\ [][Next]_vars

\* ------------------------------------------------------- the caller loops
\* for i in range(5) of test_vision_simple.py
LoopCount == 5

\* The caller's history after a call of open() / read() that returned `ok`.
AfterOpen(ok) == [hist EXCEPT !.reopened = @ \/ hist.openFailed, !.openFailed = ~ok]
AfterRead(ok) == [hist EXCEPT !.reread = @ \/ hist.readFailed, !.readFailed = @ \/ ~ok]

\* The exit status of an entry point that ends with exception e pending, or
\* would otherwise return `code`: an uncaught exception ends the interpreter
\* with status 1.
ExitStatus(e, code) == IF e = "none" THEN code ELSE 1

InitCallers ==
    /\ InitSession
    /\ prog \in {"camera_stream", "vision_stream", "test_vision_simple"}
    /\ env \in [nanollm : BOOLEAN, mock : BOOLEAN, duration : BOOLEAN, model_ok : BOOLEAN]
    /\ prog = "camera_stream" => env.nanollm = FALSE /\ env.mock = FALSE /\ env.model_ok = FALSE
    /\ prog = "vision_stream" => env.duration = FALSE
    /\ prog = "test_vision_simple" => env = NoEnv
    \* MockVisionStream.open_camera passes use_gstreamer=False,
    \* test_vision_simple.py passes use_gstreamer=True
    /\ (prog = "vision_stream" /\ (env.mock \/ ~env.nanollm)) => ~use_gstreamer
    /\ prog = "test_vision_simple" => use_gstreamer
    /\ pc = CASE prog = "camera_stream" -> "main_open"
              [] prog = "vision_stream" -> "vmain_start"
              [] OTHER -> "test_open"
    /\ exit_code = -1
    /\ i = 0
    /\ exc = "none"
    /\ hist = NoHist

\* ---- camera_stream.main
\* The open step of camera_stream.main as it would be with `return 0` for `return 1`.
MainOpen_returns_0 ==
    /\ pc = "main_open"
    /\ \E path \in OpenPaths, o \in BOOLEAN : open(path, o)
    /\ hist' = AfterOpen(result'.ok)
    /\ IF result'.ok
       THEN pc' = "main_read" /\ UNCHANGED exit_code
       ELSE pc' = "exit" /\ exit_code' = 0
    /\ UNCHANGED <<prog, env, i, exc>>

\* if not camera.open(): return 1
MainOpen ==
    /\ pc = "main_open"
    /\ \E path \in OpenPaths, o \in BOOLEAN : open(path, o)
    /\ hist' = AfterOpen(result'.ok)
    /\ IF result'.ok
       THEN pc' = "main_read" /\ UNCHANGED exit_code
       ELSE pc' = "exit" /\ exit_code' = 1
    /\ UNCHANGED <<prog, env, i, exc>>

\* The read step of camera_stream.main as it would be with `continue` for `break`.
MainRead_continues ==
    /\ pc = "main_read"
    /\ \E outcome \in {"frame", "fail", "raise"} : read(outcome)
    /\ hist' = AfterRead(result'.ok)
    /\ exc' = IF result'.raised THEN "error" ELSE exc
    /\ pc' = CASE result'.raised -> "main_finally"
               [] result'.ok -> "main_fps"
               [] OTHER -> "main_read"
    /\ UNCHANGED <<prog, env, i, exit_code>>

\* ret, frame = camera.read(); if not ret: break
MainRead ==
    /\ pc = "main_read"
    /\ \E outcome \in {"frame", "fail", "raise"} : read(outcome)
    /\ hist' = AfterRead(result'.ok)
    /\ exc' = IF result'.raised THEN "error" ELSE exc
    /\ pc' = IF result'.ok THEN "main_fps" ELSE "main_finally"
    /\ UNCHANGED <<prog, env, i, exit_code>>

\* fps = camera.get_fps()
MainFps ==
    /\ pc = "main_fps"
    /\ get_fps
    /\ pc' = "main_key"
    /\ UNCHANGED <<prog, env, i, exit_code, exc, hist>>

\* key = cv2.waitKey(1): 'q' breaks, 's' saves a snapshot; then the duration check
MainKey ==
    /\ pc = "main_key"
    /\ \E key \in {"q", "s", "other"}, expired \in BOOLEAN :
          pc' = IF key = "q" \/ (env.duration /\ expired) THEN "main_finally" ELSE "main_read"
    /\ UNCHANGED session
    /\ UNCHANGED <<prog, env, i, exit_code, exc, hist>>

\* except KeyboardInterrupt, raised anywhere inside the try block
MainInterrupt ==
    /\ pc \in {"main_read", "main_fps", "main_key"}
    /\ pc' = "main_finally"
    /\ UNCHANGED session
    /\ UNCHANGED <<prog, env, i, exit_code, exc, hist>>

\* The finally block of camera_stream.main as it would be without camera.close().
MainFinally_skips_close ==
    /\ pc = "main_finally"
    /\ pc' = "main_stats"
    /\ UNCHANGED session
    /\ UNCHANGED <<prog, env, i, exit_code, exc, hist>>

\* finally: camera.close()
MainFinally ==
    /\ pc = "main_finally"
    /\ close
    /\ pc' = "main_stats"
    /\ UNCHANGED <<prog, env, i, exit_code, exc, hist>>

\* finally: print(... camera.get_fps() ...); return 0
MainStats ==
    /\ pc = "main_stats"
    /\ get_fps
    /\ pc' = "exit"
    /\ exit_code' = ExitStatus(exc, 0)
    /\ UNCHANGED <<prog, env, i, exc, hist>>

\* ---- vision_stream.main
\* The choice of stream as it would be with `use_mock = args.mock`.
VisionStart_ignores_availability ==
    /\ pc = "vmain_start"
    /\ pc' = IF env.mock THEN "mock_open" ELSE "vila_load"
    /\ UNCHANGED session
    /\ UNCHANGED <<prog, env, i, exit_code, exc, hist>>

\* use_mock = args.mock or not NANOLLM_AVAILABLE
VisionStart ==
    /\ pc = "vmain_start"
    /\ pc' = IF env.mock \/ ~env.nanollm THEN "mock_open" ELSE "vila_load"
    /\ UNCHANGED session
    /\ UNCHANGED <<prog, env, i, exit_code, exc, hist>>

\* VisionStream.load_model; if not stream.load_model(): return 1
VisionLoadModel ==
    /\ pc = "vila_load"
    /\ IF env.nanollm /\ env.model_ok
       THEN pc' = "vila_open" /\ UNCHANGED exit_code
       ELSE pc' = "exit" /\ exit_code' = 1
    /\ UNCHANGED session
    /\ UNCHANGED <<prog, env, i, exc, hist>>

\* VisionStream.open_camera; if not stream.open_camera(): return 1
VisionOpen ==
    /\ pc = "vila_open"
    /\ \E path \in OpenPaths, o \in BOOLEAN : open(path, o)
    /\ hist' = AfterOpen(result'.ok)
    /\ IF result'.ok
       THEN pc' = "vila_read" /\ UNCHANGED exit_code
       ELSE pc' = "exit" /\ exit_code' = 1
    /\ UNCHANGED <<prog, env, i, exc>>

\* VisionStream.run: ret, frame = self.camera.read(); if not ret: ...
VisionRead ==
    /\ pc = "vila_read"
    /\ \E outcome \in {"frame", "fail", "raise"} : read(outcome)
    /\ hist' = AfterRead(result'.ok)
    /\ exc' = IF result'.raised THEN "error" ELSE exc
    /\ pc' = CASE result'.raised -> "vila_cleanup"
               [] result'.ok -> "vila_query"
               [] OTHER -> "vila_sleep"
    /\ UNCHANGED <<prog, env, i, exit_code>>

\* VisionStream.run: time.sleep(0.1); continue
VisionSleep ==
    /\ pc = "vila_sleep"
    /\ pc' = "vila_read"
    /\ UNCHANGED session
    /\ UNCHANGED <<prog, env, i, exit_code, exc, hist>>

\* VisionStream.run: the vision query, when due, and time.sleep(0.03)
VisionQuery ==
    /\ pc = "vila_query"
    /\ pc' = "vila_read"
    /\ UNCHANGED session
    /\ UNCHANGED <<prog, env, i, exit_code, exc, hist>>

\* VisionStream.run: except KeyboardInterrupt
VisionInterrupt ==
    /\ pc \in {"vila_read", "vila_sleep", "vila_query"}
    /\ pc' = "vila_cleanup"
    /\ UNCHANGED session
    /\ UNCHANGED <<prog, env, i, exit_code, exc, hist>>

\* VisionStream.run: finally: self.cleanup(); then main returns 0
VisionCleanup ==
    /\ pc = "vila_cleanup"
    /\ close
    /\ pc' = "exit"
    /\ exit_code' = ExitStatus(exc, 0)
    /\ UNCHANGED <<prog, env, i, exc, hist>>

\* MockVisionStream.open_camera; if not stream.open_camera(): return 1
MockOpen ==
    /\ pc = "mock_open"
    /\ \E path \in OpenPaths, o \in BOOLEAN : open(path, o)
    /\ hist' = AfterOpen(result'.ok)
    /\ IF result'.ok
       THEN pc' = "mock_read" /\ UNCHANGED exit_code
       ELSE pc' = "exit" /\ exit_code' = 1
    /\ UNCHANGED <<prog, env, i, exc>>

\* MockVisionStream.run: ret, frame = self.camera.read(); if not ret: ...
MockRead ==
    /\ pc = "mock_read"
    /\ \E outcome \in {"frame", "fail", "raise"} : read(outcome)
    /\ hist' = AfterRead(result'.ok)
    /\ exc' = IF result'.raised THEN "error" ELSE exc
    /\ pc' = CASE result'.raised -> "mock_cleanup"
               [] result'.ok -> "mock_analyze"
               [] OTHER -> "mock_sleep"
    /\ UNCHANGED <<prog, env, i, exit_code>>

\* MockVisionStream.run: time.sleep(0.1); continue
MockSleep ==
    /\ pc = "mock_sleep"
    /\ pc' = "mock_read"
    /\ UNCHANGED session
    /\ UNCHANGED <<prog, env, i, exit_code, exc, hist>>

\* MockVisionStream.run: the frame analysis, when due, and time.sleep(0.03)
MockAnalyze ==
    /\ pc = "mock_analyze"
    /\ pc' = "mock_read"
    /\ UNCHANGED session
    /\ UNCHANGED <<prog, env, i, exit_code, exc, hist>>

\* MockVisionStream.run: except KeyboardInterrupt
MockInterrupt ==
    /\ pc \in {"mock_read", "mock_sleep", "mock_analyze"}
    /\ pc' = "mock_cleanup"
    /\ UNCHANGED session
    /\ UNCHANGED <<prog, env, i, exit_code, exc, hist>>

\* MockVisionStream.run: finally: self.camera.close(); then main returns 0
MockCleanup ==
    /\ pc = "mock_cleanup"
    /\ close
    /\ pc' = "exit"
    /\ exit_code' = ExitStatus(exc, 0)
    /\ UNCHANGED <<prog, env, i, exc, hist>>

\* ---- test_vision_simple.py
\* if not camera.open(): sys.exit(1)
TestOpen ==
    /\ pc = "test_open"
    /\ \E path \in OpenPaths, o \in BOOLEAN : open(path, o)
    /\ hist' = AfterOpen(result'.ok)
    /\ IF result'.ok
       THEN pc' = "test_read" /\ UNCHANGED exit_code
       ELSE pc' = "exit" /\ exit_code' = 1
    /\ UNCHANGED <<prog, env, i, exc>>

\* for i in range(5): ret, frame = camera.read(); analysis or failure message
TestRead ==
    /\ pc = "test_read"
    /\ \E outcome \in {"frame", "fail", "raise"} : read(outcome)
    /\ hist' = AfterRead(result'.ok)
    /\ exc' = IF result'.raised THEN "error" ELSE exc
    /\ pc' = IF result'.raised THEN "test_finally" ELSE "test_sleep"
    /\ UNCHANGED <<prog, env, i, exit_code>>

\* time.sleep(1), then the next iteration or the end of the loop
TestSleep ==
    /\ pc = "test_sleep"
    /\ i' = i + 1
    /\ pc' = IF i + 1 < LoopCount THEN "test_read" ELSE "test_finally"
    /\ UNCHANGED session
    /\ UNCHANGED <<prog, env, exit_code, exc, hist>>

\* except KeyboardInterrupt
TestInterrupt ==
    /\ pc \in {"test_read", "test_sleep"}
    /\ pc' = "test_finally"
    /\ UNCHANGED session
    /\ UNCHANGED <<prog, env, i, exit_code, exc, hist>>

\* finally: camera.close(); the script ends
TestFinally ==
    /\ pc = "test_finally"
    /\ close
    /\ pc' = "exit"
    /\ exit_code' = ExitStatus(exc, 0)
    /\ UNCHANGED <<prog, env, i, exc, hist>>

NextCallers ==
    \/ MainOpen \/ MainRead \/ MainFps \/ MainKey \/ MainInterrupt
    \/ MainFinally \/ MainStats
    \/ VisionStart \/ VisionLoadModel \/ VisionOpen \/ VisionRead \/ VisionSleep
    \/ VisionQuery \/ VisionInterrupt \/ VisionCleanup
    \/ MockOpen \/ MockRead \/ MockSleep \/ MockAnalyze \/ MockInterrupt \/ MockCleanup
    \/ TestOpen \/ TestRead \/ TestSleep \/ TestInterrupt \/ TestFinally
    \/ Tick

SpecCallers == InitCallers /\ [][NextCallers]_vars

\* ================================================================== claims
\* A step in which the session method `op` was called.
Called(op) == result'.op = op /\ result'.seq # result.seq

\* C1: in every reachable state the handle self.cap is present exactly when the
\* session is Open (the last open() returned True and close() was not called
\* since); in particular it is absent after every open() that returned False.
C1_HandleIffOpen == (cap # NoHandle) <=> is_open

\* C2: whenever open() has returned False, the capture handle that call
\* constructed (if it constructed one) has been released.
C2_FailedOpenReleasesHandle ==
    (result.op = "open" /\ ~result.ok /\ result.created # NoHandle)
        => handles[result.created].releases >= 1

\* C3: when the trial read of open() fails, open() returns False with the handle
\* released exactly once and absent; a close() that finds no handle releases
\* nothing; and no backend handle is ever released twice.
C3_TrialFailReleasesOnce ==
    /\ [](\A h \in 1..Len(handles) : handles[h].releases <= 1)
    /\ []((result.op = "open" /\ result.path = "trial_fail")
            => /\ ~result.ok
               /\ cap = NoHandle
               /\ result.released = result.created
               /\ handles[result.created].releases = 1)
    /\ [][(Called("close") /\ cap = NoHandle)
            => (handles' = handles /\ result'.released = NoHandle)]_vars

\* C3 witness: a close() that released nothing, directly after an open() whose
\* trial read failed and whose handle stands released once.
C3_Witness ==
    /\ result.op = "close"
    /\ result.released = NoHandle
    /\ cap = NoHandle
    /\ Len(handles) = 1
    /\ handles[1].opened
    /\ handles[1].releases = 1
    /\ start_time = NoTime

\* C4: after a successful open(), frame_count equals the number of read() calls
\* that have succeeded since that open(), and is zero right after the open().
C4_FrameCountCountsReadsSinceOpen ==
    is_open => frame_count = reads_since_open

\* C5: a read() on a session that is not open returns (False, None) without
\* calling the backend or raising, and leaves frame_count, start_time and the
\* handle unchanged.
C5_ReadWhenNotOpen ==
    [][(Called("read") /\ ~is_open)
        => /\ ~result'.ok
           /\ ~result'.frame
           /\ ~result'.raised
           /\ result'.pulls = 0
           /\ frame_count' = frame_count
           /\ start_time' = start_time
           /\ cap' = cap]_vars

\* C6: while the session is open, read() pulls from the backend exactly once; if
\* the pull succeeds it returns (True, frame) and frame_count grows by exactly
\* one; if the pull fails it returns (False, None) and frame_count is unchanged;
\* either way start_time, the handle and the backend's handles are unchanged.
C6_ReadWhileOpen ==
    [][(Called("read") /\ is_open)
        => /\ result'.pulls = 1
           /\ result'.ok => (result'.frame /\ frame_count' = frame_count + 1)
           /\ ~result'.ok => (~result'.frame /\ frame_count' = frame_count)
           /\ start_time' = start_time
           /\ cap' = cap
           /\ handles' = handles]_vars

\* C6 witness: a failed read() on an open session that has already counted a frame.
C6_Witness ==
    /\ is_open
    /\ result.op = "read"
    /\ ~result.ok
    /\ ~result.raised
    /\ frame_count >= 1

\* C7: a close() called directly after a close(), or on a session without a
\* handle, raises nothing, issues no release to the backend and leaves the handle
\* absent and frame_count, start_time and the backend unchanged.
C7_CloseIdempotent ==
    [][(Called("close") /\ (result.op = "close" \/ cap = NoHandle))
        => /\ cap = NoHandle
           /\ cap' = NoHandle
           /\ ~result'.raised
           /\ result'.released = NoHandle
           /\ handles' = handles
           /\ frame_count' = frame_count
           /\ start_time' = start_time]_vars

\* C7 witness: a close() that released nothing on a session whose handle was
\* released by an earlier close(), after frames were read.
C7_Witness ==
    /\ result.op = "close"
    /\ result.released = NoHandle
    /\ cap = NoHandle
    /\ start_time # NoTime
    /\ frame_count >= 1
    /\ \E h \in 1..Len(handles) : handles[h].releases = 1

\* C8: get_fps() returns 0.0 whenever the session was never successfully opened
\* (start_time is unset) or no frame was read; a successful open() followed
\* directly by close() leaves frame_count = 0 and get_fps() = 0.0, and so does an
\* open() that fails on a session holding no handle.
C8_ZeroFps ==
    /\ []((start_time = NoTime \/ frame_count = 0) => fps = ZeroFps)
    /\ [][(Called("close") /\ result.op = "open" /\ result.ok)
            => (frame_count' = 0 /\ fps' = ZeroFps)]_vars
    /\ [][(Called("open") /\ ~result'.ok /\ cap = NoHandle)
            => (frame_count' = 0 /\ fps' = ZeroFps)]_vars

\* C9: no call ever lowers frame_count, except that an open() may set it back to
\* zero; read(), get_fps() and close() never lower or reset it.
C9_FrameCountNeverDecremented ==
    [][frame_count' < frame_count
        => (Called("open") /\ result'.ok /\ frame_count' = 0)]_vars

\* C9 witness: frames were counted, then the session was closed and opened again.
C9_Witness ==
    /\ frame_count >= 2
    /\ result.op = "open"
    /\ result.ok
    /\ Len(handles) >= 2
    /\ handles[1].releases = 1

\* C10: no layer retries: a caller never calls open() again after open() returned
\* False; after a read() failed, none of camera_stream.main, VisionStream.run and
\* MockVisionStream.run calls read() again; and neither open() nor read() pulls
\* from the backend more than once per call.
C10_NoRetries ==
    /\ ~hist.reopened
    /\ prog \in {"camera_stream", "vision_stream"} => ~hist.reread
    /\ result.op \in {"open", "read"} => result.pulls <= 1

\* C10 as amended: no caller calls open() again after open() returned False;
\* open() and read() pull from the backend at most once per call; and
\* camera_stream.main never calls read() again after a read() failed (the loops
\* of vision_stream.py and test_vision_simple.py do).
C10_NoRetriesExceptVisionLoops ==
    /\ ~hist.reopened
    /\ hist.reread => prog \in {"vision_stream", "test_vision_simple"}
    /\ result.op \in {"open", "read"} => result.pulls <= 1

\* C10 witness: camera_stream.main has ended after a read() failed on a session
\* that had delivered a frame, without reading again.
C10_Witness ==
    /\ prog = "camera_stream"
    /\ pc = "exit"
    /\ hist.readFailed
    /\ ~hist.reread
    /\ frame_count >= 1
    /\ exc = "none"

\* vision_stream.main took the VILA branch and VisionStream.load_model returned
\* False.
LoadFailed ==
    /\ prog = "vision_stream"
    /\ ~(env.mock \/ ~env.nanollm)
    /\ ~env.model_ok

\* C11: an entry point that has ended has exit code 1 exactly when the camera
\* open failed, and exit code 0 otherwise; nothing else gives a non-zero code.
C11_ExitCodeOneIffOpenFailed ==
    pc = "exit" => /\ exit_code \in {0, 1}
                   /\ exit_code = 1 <=> hist.openFailed

\* C11 as amended: an entry point that has ended has exit code 1 exactly when the
\* camera open failed, or vision_stream.main could not load the model, or an
\* error raised by a read() escaped the loop; otherwise (quit key, duration
\* expiry, read failure, loop completion, interrupt) its exit code is 0.
C11_ExitCodeOneIffOpenOrLoadFailedOrError ==
    pc = "exit" => /\ exit_code \in {0, 1}
                   /\ exit_code = 1 <=> (hist.openFailed \/ LoadFailed \/ exc # "none")

\* C11 witness: camera_stream.main, run with --duration, has ended with exit
\* code 0 after frames were read and no read failed.
C11_Witness ==
    /\ prog = "camera_stream"
    /\ pc = "exit"
    /\ exit_code = 0
    /\ env.duration
    /\ frame_count >= 1
    /\ ~hist.readFailed
    /\ ~hist.openFailed

\* C12: a fault the backend raises while open() constructs or validates the
\* handle escapes open() to the caller; it is not turned into a False return.
C12_BackendFaultEscapesOpen ==
    (result.op = "open" /\ result.raised) => result.escaped

\* C12 as amended: a fault the backend raises while open() constructs or
\* validates the handle never escapes open(): open() catches it and returns
\* False, like the expected failures, and the session is not Open.
C12_BackendFaultBecomesFalse ==
    /\ (result.op = "open" /\ result.raised)
         => (~result.escaped /\ ~result.ok /\ ~is_open)
    /\ result.op = "open" => ~result.escaped

\* C12 witness: open() has returned False after the trial read raised on a
\* capture the backend had opened; the session was never opened.
C12_Witness ==
    /\ result.op = "open"
    /\ result.path = "read_raise"
    /\ result.raised
    /\ ~result.ok
    /\ cap # NoHandle
    /\ handles[cap].opened
    /\ start_time = NoTime

\* The positions of vision_stream.main inside MockVisionStream (open_camera, run).
MockPcs == {"mock_open", "mock_read", "mock_sleep", "mock_analyze", "mock_cleanup"}

\* C13: whenever the vision-language model is unavailable (nano_llm cannot be
\* imported, or it can but loading the model fails), vision_stream.main runs the
\* heuristic MockVisionStream (after the attempt to load the model, if one is
\* made) and does not end before it has called open().
C13_FallsBackWheneverModelUnavailable ==
    (prog = "vision_stream" /\ (~env.nanollm \/ ~env.model_ok))
        => /\ pc \in {"vmain_start", "vila_load", "exit"} \cup MockPcs
           /\ pc = "exit" => result.op # "init"

\* C13 as amended: when nano_llm cannot be imported (or --mock is given),
\* vision_stream.main runs the heuristic MockVisionStream and does not end before
\* it has called open(); when nano_llm is importable, --mock is not given and
\* loading the model fails, it ends with exit code 1 without ever calling open().
C13_FallsBackOnlyWhenRuntimeMissing ==
    prog = "vision_stream" =>
        /\ (~env.nanollm \/ env.mock)
             => /\ pc \in {"vmain_start", "exit"} \cup MockPcs
                /\ pc = "exit" => result.op # "init"
        /\ (env.nanollm /\ ~env.mock /\ ~env.model_ok)
             => /\ pc \in {"vmain_start", "vila_load", "exit"}
                /\ pc = "exit" => (exit_code = 1 /\ result.op = "init" /\ handles = <<>>)

\* C13 witness: without nano_llm and without --mock, MockVisionStream.run holds a
\* frame it has just read from the opened camera.
C13_Witness ==
    /\ prog = "vision_stream"
    /\ ~env.nanollm
    /\ ~env.mock
    /\ pc = "mock_analyze"
    /\ is_open
    /\ frame_count >= 1

\* The backend captures that were opened and on which release() has not been
\* called (by close() or by a finalizer).
Unreleased == {h \in 1..Len(handles) : Live(h)}

\* C14: at any time at most one backend handle is unreleased, and once close()
\* has returned every handle open() ever created has been released, also when
\* open() was called on a session that was already open.
C14_AtMostOneUnreleasedHandle ==
    /\ Cardinality(Unreleased) <= 1
    /\ result.op = "close" => Unreleased = {}

\* C15: an entry point whose open() succeeded does not end before close() has
\* been called: when it has ended the session is not Open and its handle is
\* absent and released, whatever ended the loop (read failure, quit key,
\* duration expiry, loop completion, interrupt, error); and that close() leaves
\* frame_count at its final value.
C15_CallersCloseBeforeReturning ==
    /\ []((pc = "exit" /\ start_time # NoTime)
            => (~is_open /\ cap = NoHandle /\ Unreleased = {}))
    /\ [][Called("close") => (cap' = NoHandle /\ frame_count' = frame_count)]_vars
    /\ [][(pc' = "exit" /\ start_time # NoTime) => frame_count' = frame_count]_vars

\* C15 witness: camera_stream.main has ended through the quit key or an interrupt after reading
\* frames; the handle it opened is released and frame_count still counts them.
C15_Witness ==
    /\ prog = "camera_stream"
    /\ pc = "exit"
    /\ exit_code = 0
    /\ ~hist.readFailed
    /\ ~env.duration
    /\ frame_count >= 2
    /\ cap = NoHandle
    /\ Len(handles) = 1
    /\ handles[1].releases = 1

=============================================================================
